---- MODULE Spec2Model ----
(***************************************************************************)
(* Model of src/src/index.tsx: the usePasswordInput hook (visibility flag, *)
(* input value, toggle with deferred focus/caret restoration) and the      *)
(* stateless InputWrapper view.                                            *)
(*                                                                         *)
(* React state is modelled as committed hook state plus a queue of pending *)
(* updates that the next render applies in order; setTimeout(cb, 0) is a   *)
(* FIFO list of timer callbacks that the event loop runs in a later task.  *)
(***************************************************************************)
EXTENDS Integers, Sequences, FiniteSets, TLC

\* ---------------------------------------------------------------- bounds
MaxToggles == 3
MaxPending == 2
MaxTimers == 2

\* ------------------------------------------------------------- constants
Undefined == "undefined"

\* values a change event or a setValue call can carry (with outer blanks,
\* so that "verbatim" differs from "trimmed")
Values == {"", "a", " a "}

DEFAULT_ICONS == [show |-> "DefaultShowIcon", hide |-> "DefaultHideIcon"]

DEFAULT_CLASSES ==
  [wrapper |-> "relative",
   suffix |-> "flex bg-white absolute right-2 top-1/2 gap-1 items-center -translate-y-1/2",
   button |-> "p-1 focus:outline-none"]

\* the `password` option: omitted, false, true, or a config object with
\* both icons or with the show icon alone
PasswordOptions ==
  { [kind |-> "omitted", show |-> Undefined, hide |-> Undefined],
    [kind |-> "false", show |-> Undefined, hide |-> Undefined],
    [kind |-> "true", show |-> Undefined, hide |-> Undefined],
    [kind |-> "config", show |-> "A", hide |-> "B"],
    [kind |-> "config", show |-> "A", hide |-> Undefined] }

\* what the caller passes besides `password`: hook options classNames and cn,
\* and the wrapper's own className / pass-through attributes / children
CallerProps ==
  { [className |-> Undefined, button |-> Undefined, cn |-> Undefined],
    [className |-> "base", button |-> "extra", cn |-> Undefined],
    [className |-> "base", button |-> Undefined, cn |-> "sentinel"] }

\* JavaScript truthiness of the values used here
Truthy(x) == x \notin {Undefined, "", "false", "omitted"}

VARIABLES
  password,      \* options.password
  caller,        \* the remaining caller-supplied options and props
  showPassword,  \* useState(false): committed VisibilityFlag
  inputValue,    \* useState(""): committed InputValue
  queue,         \* state updates enqueued and not yet rendered
  timers,        \* pending setTimeout(..., 0) callbacks, FIFO
  mounted,       \* the owning component is mounted
  attached,      \* inputRef.current is an element
  el,            \* the bound DOM input element
  error,         \* a callback threw
  nToggles,      \* history: toggle invocations so far
  nRendered,     \* history: toggle invocations whose update has been rendered
  nDeferredRun,  \* history: deferred steps executed so far
  lastWrite,     \* history: the most recent change event or setValue call
  last           \* history: the operation that produced this state

vars == <<password, caller, showPassword, inputValue, queue, timers, mounted,
          attached, el, error, nToggles, nRendered, nDeferredRun, lastWrite,
          last>>

config == <<password, caller>>

\* ------------------------------------------------------- pure functions
RECURSIVE JoinTruthy(_)
\* [...].filter(Boolean).join(" ")
JoinTruthy(parts) ==
  IF parts = <<>> THEN ""
  ELSE LET rest == JoinTruthy(Tail(parts))
       IN IF ~Truthy(Head(parts)) THEN rest
          ELSE IF rest = "" THEN Head(parts)
          ELSE Head(parts) \o " " \o rest

\* a caller-supplied ClassNameFn: the sentinel combinator of the spec's test
CallCn(cn, parts) == "SENTINEL"

combineClasses(cn, defaultClass, customClass) ==
  IF Truthy(cn) THEN CallCn(cn, <<defaultClass, customClass>>)
  ELSE JoinTruthy(<<defaultClass, customClass>>)

\* variant: tests `password !== false`, so an omitted option counts as enabled
IsPasswordMode_strictFalse(p) == p.kind # "false"

IsPasswordMode(p) == Truthy(p.kind)

\* variant: ignores the caller's show icon
ShowIcon_defaultOnly(p) == DEFAULT_ICONS.show

\* config.icons?.show ?? DEFAULT_ICONS.show
ShowIcon(p) == IF p.show # Undefined THEN p.show ELSE DEFAULT_ICONS.show

\* config.icons?.hide ?? DEFAULT_ICONS.hide
HideIcon(p) == IF p.hide # Undefined THEN p.hide ELSE DEFAULT_ICONS.hide

\* variant: the label names the current state instead of the next action
AriaLabel_currentState(show) == IF show THEN "Show password" ELSE "Hide password"

AriaLabel(show) == IF show THEN "Hide password" ELSE "Show password"

ButtonIcon(p, show) == IF show THEN HideIcon(p) ELSE ShowIcon(p)

\* `${wrapperClass} ${className || ""}`.trim(), or cn(wrapperClass, className)
FinalWrapperClass(cn, wrapperClass, className) ==
  IF Truthy(cn) THEN CallCn(cn, <<wrapperClass, className>>)
  ELSE IF Truthy(className) THEN wrapperClass \o " " \o className
  ELSE wrapperClass

\* The rendered tree of the Wrapper View: the outer container and, in
\* password mode, a suffix container (a sequence of zero or one element)
\* holding the toggle button.
InputWrapper(props) ==
  IF ~IsPasswordMode(props.password)
  THEN [tag |-> "div", className |-> props.className, rest |-> props.rest,
        children |-> props.children, suffix |-> <<>>]
  ELSE LET wrapperClass == combineClasses(props.cn, DEFAULT_CLASSES.wrapper,
                                          props.classNames.wrapper)
           suffixClass == combineClasses(props.cn, DEFAULT_CLASSES.suffix,
                                         props.classNames.suffix)
           buttonClass == combineClasses(props.cn, DEFAULT_CLASSES.button,
                                         props.classNames.button)
       IN [tag |-> "div",
           className |-> FinalWrapperClass(props.cn, wrapperClass, props.className),
           rest |-> props.rest,
           children |-> props.children,
           suffix |-> << [tag |-> "div", className |-> suffixClass,
                          button |-> [type |-> "button",
                                      onClick |-> props.onTogglePassword,
                                      className |-> buttonClass,
                                      ariaLabel |-> AriaLabel(props.showPassword),
                                      icon |-> ButtonIcon(props.password,
                                                          props.showPassword)]] >>]

\* ------------------------------------------------- the hook's return bundle
EmptyObject == [k \in {} |-> Undefined]

inputProps ==
  IF IsPasswordMode(password)
  THEN [type |-> IF showPassword THEN "text" ELSE "password",
        value |-> inputValue,
        onChange |-> "handleInputChange",
        className |-> "pr-10",
        ref |-> "inputRef"]
  ELSE EmptyObject

wrapperProps ==
  [password |-> password,
   showPassword |-> showPassword,
   onTogglePassword |-> "togglePassword",
   classNames |-> [wrapper |-> Undefined, suffix |-> Undefined,
                   button |-> caller.button],
   cn |-> caller.cn]

\* what the host renders: <InputWrapper {...wrapperProps} className=...>
\*                          <input {...inputProps} /></InputWrapper>
View ==
  InputWrapper([children |-> <<inputProps>>,
                className |-> caller.className,
                rest |-> "data-attrs",
                password |-> wrapperProps.password,
                showPassword |-> wrapperProps.showPassword,
                onTogglePassword |-> wrapperProps.onTogglePassword,
                classNames |-> wrapperProps.classNames,
                cn |-> wrapperProps.cn])

\* ------------------------------------------------------- state updates
\* variant: setShowPassword(!showPassword) inside useCallback(..., []), whose
\* closure holds the initial showPassword = false for ever
ToggleUpdates_staleClosure ==
  << [by |-> "toggle", target |-> "showPassword",
      fn |-> [prev \in BOOLEAN |-> TRUE]] >>

\* setShowPassword((prev) => !prev)
ToggleUpdates ==
  << [by |-> "toggle", target |-> "showPassword",
      fn |-> [prev \in BOOLEAN |-> ~prev]] >>

Trim(value) == IF value = " a " THEN "a" ELSE value

\* variant: setInputValue(e.target.value.trim())
handleInputChange_trim(value) ==
  << [by |-> "change", target |-> "inputValue",
      fn |-> [prev \in Values |-> Trim(value)]] >>

\* variant: typing also masks the field again, setShowPassword(false)
handleInputChange_hides(value) ==
  << [by |-> "change", target |-> "inputValue",
      fn |-> [prev \in Values |-> value]],
     [by |-> "change", target |-> "showPassword",
      fn |-> [prev \in BOOLEAN |-> FALSE]] >>

\* setInputValue(e.target.value)
handleInputChange(value) ==
  << [by |-> "change", target |-> "inputValue",
      fn |-> [prev \in Values |-> value]] >>

\* setValue: setInputValue, handed to the caller
setValue(value) ==
  << [by |-> "setValue", target |-> "inputValue",
      fn |-> [prev \in Values |-> value]] >>

\* one queued update applied to the hook state [show, value]
ApplyUpdate(st, u) ==
  IF u.target = "showPassword"
  THEN [st EXCEPT !.show = u.fn[st.show]]
  ELSE [st EXCEPT !.value = u.fn[st.value]]

RECURSIVE ApplyAll(_, _)
ApplyAll(st, q) ==
  IF q = <<>> THEN st ELSE ApplyAll(ApplyUpdate(st, Head(q)), Tail(q))

\* ---------------------------------------------------------------- Init
Init ==
  /\ password \in PasswordOptions
  /\ caller \in CallerProps
  /\ showPassword = FALSE
  /\ inputValue = ""
  /\ queue = <<>>
  /\ timers = <<>>
  /\ mounted = TRUE
  /\ attached = IsPasswordMode(password)
  /\ el = [value |-> "", type |-> IF IsPasswordMode(password) THEN "password" ELSE "text",
           focused |-> FALSE, selStart |-> 0, selEnd |-> 0]
  /\ error = FALSE
  /\ nToggles = 0
  /\ nRendered = 0
  /\ nDeferredRun = 0
  /\ lastWrite = [by |-> "none", v |-> ""]
  /\ last = [op |-> "init", id |-> 0, attached |-> FALSE]

\* -------------------------------------------------------------- actions
\* variant: the focus/caret step runs inside the toggle call, no setTimeout
togglePassword_sync ==
  /\ mounted
  /\ nToggles < MaxToggles
  /\ Len(queue) + Len(ToggleUpdates) <= MaxPending
  /\ queue' = queue \o ToggleUpdates
  /\ IF attached
     THEN el' = [el EXCEPT !.focused = TRUE,
                           !.selStart = Len(el.value),
                           !.selEnd = Len(el.value)]
     ELSE el' = el
  /\ nToggles' = nToggles + 1
  /\ nDeferredRun' = nDeferredRun + 1
  /\ last' = [op |-> "deferred", id |-> nToggles + 1, attached |-> attached]
  /\ UNCHANGED <<password, caller, showPassword, inputValue, timers, mounted,
                 attached, error, nRendered, lastWrite>>

\* togglePassword: enqueue the flip, then setTimeout(<focus/caret step>, 0)
togglePassword ==
  /\ mounted
  /\ nToggles < MaxToggles
  /\ Len(queue) + Len(ToggleUpdates) <= MaxPending
  /\ Len(timers) < MaxTimers
  /\ queue' = queue \o ToggleUpdates
  /\ timers' = Append(timers, [id |-> nToggles + 1])
  /\ nToggles' = nToggles + 1
  /\ last' = [op |-> "toggle", id |-> nToggles + 1, attached |-> attached]
  /\ UNCHANGED <<password, caller, showPassword, inputValue, mounted, attached,
                 el, error, nRendered, nDeferredRun, lastWrite>>

\* variant: setSelectionRange(0, textLength) selects the whole text
DeferredStep_selectAll ==
  /\ timers # <<>>
  /\ queue = <<>>
  /\ timers' = Tail(timers)
  /\ IF attached
     THEN el' = [el EXCEPT !.focused = TRUE,
                           !.selStart = 0,
                           !.selEnd = Len(el.value)]
     ELSE el' = el
  /\ nDeferredRun' = nDeferredRun + 1
  /\ last' = [op |-> "deferred", id |-> Head(timers).id, attached |-> attached]
  /\ UNCHANGED <<password, caller, showPassword, inputValue, queue, mounted,
                 attached, error, nToggles, nRendered, lastWrite>>

\* variant: no `if (inputRef.current)` guard, so a cleared ref throws
DeferredStep_noGuard ==
  /\ timers # <<>>
  /\ queue = <<>>
  /\ timers' = Tail(timers)
  /\ IF attached
     THEN /\ el' = [el EXCEPT !.focused = TRUE,
                              !.selStart = Len(el.value),
                              !.selEnd = Len(el.value)]
          /\ error' = error
     ELSE /\ el' = el
          /\ error' = TRUE
  /\ nDeferredRun' = nDeferredRun + 1
  /\ last' = [op |-> "deferred", id |-> Head(timers).id, attached |-> attached]
  /\ UNCHANGED <<password, caller, showPassword, inputValue, queue, mounted,
                 attached, nToggles, nRendered, lastWrite>>

\* the setTimeout callback of togglePassword, run by the event loop in a
\* later task, after the updates of the finished task have been rendered
DeferredStep ==
  /\ timers # <<>>
  /\ queue = <<>>
  /\ timers' = Tail(timers)
  /\ IF attached
     THEN el' = [el EXCEPT !.focused = TRUE,
                           !.selStart = Len(el.value),
                           !.selEnd = Len(el.value)]
     ELSE el' = el
  /\ nDeferredRun' = nDeferredRun + 1
  /\ last' = [op |-> "deferred", id |-> Head(timers).id, attached |-> attached]
  /\ UNCHANGED <<password, caller, showPassword, inputValue, queue, mounted,
                 attached, error, nToggles, nRendered, lastWrite>>

\* the user edits the bound input: the element takes the new text, then the
\* change event reaches handleInputChange
Change(value) ==
  /\ mounted
  /\ attached
  /\ queue = <<>>
  /\ el' = [el EXCEPT !.value = value, !.focused = TRUE,
                      !.selStart = Len(value), !.selEnd = Len(value)]
  /\ queue' = handleInputChange(value)
  /\ lastWrite' = [by |-> "change", v |-> value]
  /\ last' = [op |-> "change", id |-> 0, attached |-> attached]
  /\ UNCHANGED <<password, caller, showPassword, inputValue, timers, mounted,
                 attached, error, nToggles, nRendered, nDeferredRun>>

\* the caller writes the value through the returned setValue
SetValue(value) ==
  /\ mounted
  /\ Len(queue) < MaxPending
  /\ queue' = queue \o setValue(value)
  /\ lastWrite' = [by |-> "setValue", v |-> value]
  /\ last' = [op |-> "setValue", id |-> 0, attached |-> attached]
  /\ UNCHANGED <<password, caller, showPassword, inputValue, timers, mounted,
                 attached, el, error, nToggles, nRendered, nDeferredRun>>

\* the element as the commit of a render with the given input props leaves
\* it: type and value follow the props; a changed type or value may move the
\* caret (to 0 or to the end), a changed type may drop focus
Commit(e, props, caret, keepFocus) ==
  IF e.type = props.type /\ e.value = props.value THEN e
  ELSE [value |-> props.value, type |-> props.type,
        focused |-> IF e.type = props.type THEN e.focused
                    ELSE e.focused /\ keepFocus,
        selStart |-> IF caret THEN Len(props.value) ELSE 0,
        selEnd |-> IF caret THEN Len(props.value) ELSE 0]

\* re-render: the hook body runs with the queued updates applied in order
RenderHook ==
  /\ mounted
  /\ queue # <<>>
  /\ UNCHANGED <<password, caller>>
  /\ LET st == ApplyAll([show |-> showPassword, value |-> inputValue], queue)
     IN /\ showPassword' = st.show
        /\ inputValue' = st.value
  /\ queue' = <<>>
  /\ nRendered' = nToggles
  /\ IF attached
     THEN \E caret \in BOOLEAN, keepFocus \in BOOLEAN :
            el' = Commit(el, inputProps', caret, keepFocus)
     ELSE el' = el
  /\ last' = [op |-> "render", id |-> 0, attached |-> attached]
  /\ UNCHANGED <<timers, mounted, attached, error, nToggles, nDeferredRun,
                 lastWrite>>

\* the owning component unmounts: React clears the ref and drops the state
Unmount ==
  /\ mounted
  /\ mounted' = FALSE
  /\ attached' = FALSE
  /\ queue' = <<>>
  /\ el' = [el EXCEPT !.focused = FALSE]
  /\ last' = [op |-> "unmount", id |-> 0, attached |-> attached]
  /\ UNCHANGED <<password, caller, showPassword, inputValue, timers, error,
                 nToggles, nRendered, nDeferredRun, lastWrite>>

\* the user places the caret / selects a range in the bound input
UserSelect(a, b) ==
  /\ mounted
  /\ attached
  /\ queue = <<>>
  /\ a <= b
  /\ b <= Len(el.value)
  /\ el' = [el EXCEPT !.focused = TRUE, !.selStart = a, !.selEnd = b]
  /\ last' = [op |-> "select", id |-> 0, attached |-> attached]
  /\ UNCHANGED <<password, caller, showPassword, inputValue, queue, timers,
                 mounted, attached, error, nToggles, nRendered, nDeferredRun,
                 lastWrite>>

\* the user moves focus away from the input
Blur ==
  /\ mounted
  /\ attached
  /\ queue = <<>>
  /\ el.focused
  /\ el' = [el EXCEPT !.focused = FALSE]
  /\ last' = [op |-> "blur", id |-> 0, attached |-> attached]
  /\ UNCHANGED <<password, caller, showPassword, inputValue, queue, timers,
                 mounted, attached, error, nToggles, nRendered, nDeferredRun,
                 lastWrite>>

Next ==
  \/ togglePassword
  \/ DeferredStep
  \/ \E value \in Values : Change(value)
  \/ \E value \in Values : SetValue(value)
  \/ RenderHook
  \/ Unmount
  \/ \E a \in 0..3, b \in 0..3 : UserSelect(a, b)
  \/ Blur

Spec == Init /\ [][Next]_vars

\* ---------------------------------------------------------------- claims
\* every enqueued update has been rendered and the component is alive, so
\* the bundle the caller holds reflects all operations so far
Settled == mounted /\ queue = <<>>

Button == View.suffix[1].button

\* C1: after n toggle invocations, interleaved arbitrarily with change
\* events and setValue calls, the exposed showPassword is TRUE exactly when
\* n is odd, whatever the input value is.
C1_ToggleParity ==
  Settled => (showPassword = (nToggles % 2 = 1)
              /\ wrapperProps.showPassword = (nToggles % 2 = 1))

C1_Witness ==
  /\ Settled
  /\ nToggles = 3
  /\ showPassword
  /\ inputValue = " a "

\* C2: the input value (returned as value and as inputProps.value) is the
\* value of the most recent change event, verbatim, whatever the visibility
\* flag; before any change event or setValue call it is the empty string.
C2_LastChangeVerbatim ==
  Settled =>
    /\ lastWrite.by = "change" =>
         (inputValue = lastWrite.v /\ inputProps.value = lastWrite.v)
    /\ lastWrite.by = "none" => inputValue = ""

C2_Witness ==
  /\ Settled
  /\ lastWrite = [by |-> "change", v |-> " a "]
  /\ showPassword
  /\ inputValue = " a "

\* C3: a step changes showPassword only by rendering an update that a toggle
\* enqueued, and changes inputValue only by rendering an update that a change
\* event or setValue enqueued; the toggle call and its deferred step change
\* neither.
C3_Independence ==
  [][ /\ last'.op # "render" =>
           (showPassword' = showPassword /\ inputValue' = inputValue)
      /\ (\A i \in DOMAIN queue : queue[i].by # "toggle") =>
           showPassword' = showPassword
      /\ (\A i \in DOMAIN queue : queue[i].by = "toggle") =>
           inputValue' = inputValue ]_vars

C3_Witness ==
  /\ last.op = "render"
  /\ showPassword
  /\ inputValue = "a"
  /\ lastWrite.by = "change"
  /\ nDeferredRun >= 1

\* C4: when a deferred step has run with the input element attached, the
\* element has focus and its selection start and end both equal the length
\* of the element's current value.
C4_FocusAndCaretAtEnd ==
  (last.op = "deferred" /\ last.attached) =>
    /\ el.focused
    /\ el.selStart = Len(el.value)
    /\ el.selEnd = Len(el.value)

C4_Witness ==
  /\ last.op = "deferred"
  /\ last.attached
  /\ el.value = " a "
  /\ lastWrite.by = "change"
  /\ el.selStart = 3

\* C5: a deferred step that finds the input element reference detached
\* raises no error and changes neither the element nor any hook state.
C5_DetachedStepIsNoOp ==
  [][ (nDeferredRun' # nDeferredRun /\ ~attached) =>
        /\ ~error'
        /\ el' = el
        /\ showPassword' = showPassword
        /\ inputValue' = inputValue
        /\ queue' = queue
        /\ mounted' = mounted
        /\ attached' = attached ]_vars

C5_Witness ==
  /\ last.op = "deferred"
  /\ ~last.attached
  /\ ~mounted
  /\ IsPasswordMode(password)
  /\ ~error

\* C6: with the password option omitted or false, inputProps is an empty
\* object and the wrapper is a plain container: the caller's class name, the
\* pass-through attributes, the children, and no suffix container / button.
C6_DisabledIsPassthrough ==
  password.kind \in {"omitted", "false"} =>
    /\ DOMAIN inputProps = {}
    /\ View.tag = "div"
    /\ View.className = caller.className
    /\ View.rest = "data-attrs"
    /\ View.children = <<inputProps>>
    /\ View.suffix = <<>>

C6_Witness ==
  /\ password.kind = "omitted"
  /\ caller.className = "base"
  /\ Settled
  /\ nToggles >= 1
  /\ lastWrite.by = "setValue"
  /\ inputValue = "a"

\* C7: with the password option omitted or false, toggle invocations leave
\* showPassword at FALSE and schedule no deferred focus/caret action.
C7_DisabledToggleInert ==
  password.kind \in {"omitted", "false"} =>
    (showPassword = FALSE /\ timers = <<>>)

\* C8: in password mode the button's label is "Hide password" exactly when
\* the input's type is "text" and "Show password" exactly when it is
\* "password"; it is "Show password" initially and "Hide password" after
\* one toggle.
C8_LabelNamesNextAction ==
  IsPasswordMode(password) =>
    /\ Button.ariaLabel = "Hide password" <=> inputProps.type = "text"
    /\ Button.ariaLabel = "Show password" <=> inputProps.type = "password"
    /\ (Settled /\ nToggles = 0) => Button.ariaLabel = "Show password"
    /\ (Settled /\ nToggles = 1) => Button.ariaLabel = "Hide password"

C8_Witness ==
  /\ IsPasswordMode(password)
  /\ Settled
  /\ nToggles = 1
  /\ Button.ariaLabel = "Hide password"

\* C9: in password mode the button shows the effective hide icon when
\* showPassword is TRUE and the effective show icon otherwise, a caller's
\* icon overriding the default of its slot; with icons {show: A, hide: B}
\* the icon is A or B and never a built-in default.
C9_IconFollowsFlag ==
  IsPasswordMode(password) =>
    /\ Button.icon =
         IF showPassword
         THEN (IF password.hide # Undefined THEN password.hide
               ELSE "DefaultHideIcon")
         ELSE (IF password.show # Undefined THEN password.show
               ELSE "DefaultShowIcon")
    /\ (password.show = "A" /\ password.hide = "B") =>
         /\ Button.icon = (IF showPassword THEN "B" ELSE "A")
         /\ Button.icon \notin {"DefaultShowIcon", "DefaultHideIcon"}

C9_Witness ==
  /\ password.show = "A"
  /\ password.hide = "B"
  /\ nToggles = 3
  /\ showPassword
  /\ Button.icon = "B"

====
